---- MODULE Spec2Model ----
(***************************************************************************)
(* A model of the hiring-bias backend (Express router in front of two      *)
(* JSON fixtures, a login audit table and an upstream scoring service).    *)
(* The repository holds several revisions of the same entry point; the     *)
(* revision that is deployed is fixed at start (rev, authRev).             *)
(*                                                                         *)
(* Numbers are JavaScript numbers; the model keeps them as integers in     *)
(* tenths (600 is 60.0, 1 is 0.1), which is exact for every value used.    *)
(***************************************************************************)
EXTENDS Integers, Sequences, FiniteSets, TLC

VARIABLES
    rev,          \* the deployed revision of POST /api/bias-fixer
    mlModel,      \* the upstream scorer: candidate index -> qualification_score
    pc,           \* the bias-fixer handler: "idle", "awaiting", "done"
    body,         \* req.body of the bias-fixer request
    call,         \* per candidate: "none", "queued", "throwing", "inflight",
                  \* "done", "failed", "threw"
    results,      \* Promise.all's array of the values the callbacks returned
    outOfOrder,   \* some call settled while an earlier candidate's had not
    responses,    \* the responses written for the bias-fixer request, in order
    countryOf,    \* the country field of each served record that has one
    payloads,     \* per candidate, the statistics its scoring call was sent
    peer          \* the handler of a second bias-fixer request, handled meanwhile

batchVars == <<rev, mlModel, pc, body, call, results, outOfOrder, responses,
               countryOf, payloads, peer>>

VARIABLES
    authRev,         \* the deployed revision of POST /api/login
    users,           \* the rows of table users (session revision)
    logs,            \* the audit rows, in the order they were appended
    session,         \* the session store: per client, the session's user
    clock,           \* the wall clock, in milliseconds
    req,             \* the login request received last
    inserts,         \* the login handlers suspended on their audit INSERT
    loginCount,      \* the login requests received so far
    signupCount,     \* the signup requests received so far
    loginResponses,  \* the responses written to login requests, in order
    signups,         \* the signup handlers suspended on their INSERT
    signupResponses, \* the responses written to signup requests, in order
    answer           \* the response written last by GET /api/logs or /api/logout

authVars == <<authRev, users, logs, session, clock, req, inserts, loginCount,
              signupCount, loginResponses, signups, signupResponses, answer>>

VARIABLES
    build,           \* the deployed revision of the entry point as a whole
    env,             \* whether ML_API_URL is set and whether the database answers
    proc,            \* the process: "loading", "listening", "exited"
    dbInit,          \* the CREATE TABLE query: "none", "pending", "fulfilled", "rejected"
    rawIndividuals,  \* JSON.parse of bias_data.json
    countryStats,    \* JSON.parse of country_stats.json
    loaded,          \* the collection the process serves, once loaded
    dataAnswer,      \* the response written last by a dataset endpoint
    lookups,         \* per requested name, the last response of the country lookup
    predictCount,    \* the POST /api/predict requests received so far
    upstreamCalls,   \* the calls POST /api/predict has issued to the scorer
    upstream,        \* the handler of POST /api/predict and what the scorer gave it
    predictAnswer    \* the response written last by POST /api/predict

serverVars == <<build, env, proc, dbInit, rawIndividuals, countryStats, loaded,
                dataAnswer, lookups, predictCount, upstreamCalls, upstream,
                predictAnswer>>

vars == <<batchVars, authVars, serverVars>>

----------------------------------------------------------------------------
(* Bounds and program constants *)

\* the number of records of bias_data.json
NumCandidates == 6

\* pLimit(5)
PoolSize == 5

\* the login requests, the signup requests and the clock ticks of a behaviour
MaxLogins  == 2
MaxSignups == 2
MaxClock   == 1

\* the records of a bias_data.json the loader is given, and the
\* POST /api/predict requests of a behaviour
MaxRecords  == 2
MaxPredicts == 2

----------------------------------------------------------------------------
(* JavaScript values *)

Undefined == [t |-> "undefined", v |-> 0]
Null      == [t |-> "null", v |-> 0]
Number(n) == [t |-> "number", v |-> n]

\* n as a model number (tenths)
Num(n) == n * 10

\* ToNumber of a request value in arithmetic and comparison: null is 0
ToNumber(x) == IF x.t = "number" THEN x.v ELSE 0

\* Math.round: the nearest integer, halves upwards
MathRound(x) == ((x + 5) \div 10) * 10

\* Array.prototype.includes
Includes(seq, x) == \E k \in 1..Len(seq) : seq[k] = x

\* a boolean used as a summand
BoolToNumber(b) == IF b THEN 1 ELSE 0

\* String.prototype.toLowerCase, on the strings the requests carry
ToLowerCase(s) ==
    CASE s = "Admin"       -> "admin"
      [] s = "Bob"         -> "bob"
      [] s = " Bob"        -> " bob"
      [] s = "France"      -> "france"
      [] s = "FRANCE"      -> "france"
      [] s = "Peru"        -> "peru"
      [] s = "Nowhereland" -> "nowhereland"
      [] OTHER             -> s

\* String.prototype.trim, on the strings the requests carry
Trim(s) ==
    CASE s = " Bob"   -> "Bob"
      [] s = " bob"   -> "bob"
      [] s = " "      -> ""
      [] s = " peru " -> "peru"
      [] s = " Peru " -> "Peru"
      [] OTHER        -> s

\* a value of country_stats.json
Stats(n) == [t |-> "object", v |-> n]

\* Object.prototype, which every parsed object inherits from: an object with
\* no property of its own
ObjectPrototype == [t |-> "object", v |-> 0]

\* the literal {}
EmptyRecord == [t |-> "object", v |-> 0]

\* obj[key]: the object's own property, else the inherited one
GetProperty(obj, key) ==
    IF key \in DOMAIN obj THEN obj[key]
    ELSE IF key = "__proto__" THEN ObjectPrototype
    ELSE Undefined

----------------------------------------------------------------------------
(* Fixtures *)

FlagCatalog ==
    << <<"gender", "migrant">>, <<>>, <<"gender">>, <<"migrant", "age">>,
       <<"gender", "gender", "migrant">>, <<"age">> >>

ScoreCatalog == << Num(50), Num(80), Num(58), Num(30) >>

Candidate(i) ==
    [ name                |-> i,
      qualification_score |-> ScoreCatalog[((i - 1) % Len(ScoreCatalog)) + 1],
      bias_flags          |-> FlagCatalog[((i - 1) % Len(FlagCatalog)) + 1] ]

\* JSON.parse(fs.readFileSync('bias_data.json'))
individuals == [i \in 1..NumCandidates |-> Candidate(i)]

Indices == 1..NumCandidates

\* the scorers the upstream may be: a probability (0.5), a percentage (50.0),
\* or one that depends on the payload
MLModels ==
    { [i \in Indices |-> 5],
      [i \in Indices |-> Num(50)],
      [i \in Indices |-> IF i % 2 = 1 THEN Num(50) ELSE Num(65)] }

Revisions == {"local", "raw", "pct", "bounded"}

\* the values a request may carry for minScore and tolerance
MinScoreValues  == {Undefined, Null, Number(0), Number(Num(51)), Number(Num(60))}
ToleranceValues == {Undefined, Null, Number(0), Number(Num(2)), Number(1)}

NoResult == [name |-> 0, original_score |-> 0, adjusted_score |-> 0, hired |-> FALSE]

----------------------------------------------------------------------------
(* POST /api/bias-fixer *)

\* the parameter check at the head of the handler
MissingParameters(r, b) ==
    IF r = "local"
    THEN b.minScore = Undefined \/ b.tolerance = Undefined
    ELSE b.minScore \in {Undefined, Null} \/ b.tolerance \in {Undefined, Null}

\* (person.bias_flags || []).filter(f => f === 'gender' || f === 'migrant').length
RECURSIVE FilterCount(_)
FilterCount(flags) ==
    IF flags = <<>> THEN 0
    ELSE BoolToNumber(Head(flags) \in {"gender", "migrant"}) + FilterCount(Tail(flags))

\* c.bias_flags.includes('gender') + c.bias_flags.includes('migrant')
IncludesCount(flags) ==
    BoolToNumber(Includes(flags, "gender")) + BoolToNumber(Includes(flags, "migrant"))

\* the multiplier of tolerance * 5 the revision applies to a candidate
bumpCount(r, c) ==
    IF r = "pct" THEN FilterCount(c.bias_flags) ELSE IncludesCount(c.bias_flags)

\* the score the revision takes for a candidate once the scorer answered data
ScoreOf(r, c, data) ==
    IF r = "pct" THEN MathRound(data * 100)
    ELSE IF r = "local" THEN c.qualification_score
    ELSE data

\* the value hired is decided on
HiredOn(r, score, adjusted) ==
    IF r \in {"raw", "bounded"} THEN score ELSE adjusted

\* the object one candidate's callback returns
ResultEntry(r, c, data, b) ==
    LET score    == ScoreOf(r, c, data)
        adjusted == score + ToNumber(b.tolerance) * 5 * bumpCount(r, c)
    IN  [ name           |-> c.name,
          original_score |-> IF r = "pct" THEN score ELSE c.qualification_score,
          adjusted_score |-> IF r = "pct" THEN MathRound(adjusted) ELSE adjusted,
          hired          |-> HiredOn(r, score, adjusted) >= ToNumber(b.minScore) ]

\* individuals.map(c => ...) of the revision without a scorer
Simulated(b) ==
    [i \in Indices |-> ResultEntry("local", individuals[i], 0, b)]

\* the served collections of a run: every record from france; one record of
\* a country the statistics do not list and one spelt with a capital; one
\* record that has no country field
CountryFiles ==
    { [i \in Indices |-> "france"],
      [i \in Indices |-> IF i = 2 THEN "Nowhereland"
                         ELSE IF i = 3 THEN "France" ELSE "france"],
      [i \in Indices \ {2} |-> "france"] }

NoPayload == [t |-> "none", v |-> 0]

\* c.country.toLowerCase() where c.country is undefined: a TypeError
Throws(r, cn, i) == r \in {"pct", "bounded"} /\ i \notin DOMAIN cn

\* the key the callback looks the statistics up by: countryStats[undefined]
\* reads the property named 'undefined'
StatsKey(r, cn, i) ==
    IF r = "raw" THEN (IF i \in DOMAIN cn THEN cn[i] ELSE "undefined")
    ELSE ToLowerCase(cn[i])

\* countryStats[key] || {}
StatsFor(r, stats, cn, i) ==
    LET one == GetProperty(stats, StatsKey(r, cn, i))
    IN  IF one.t = "object" THEN one ELSE EmptyRecord

\* the statistics in the payloads of the calls issued so far
Payloads(r, stats, cn, cs) ==
    [i \in Indices |-> IF cs[i] \in {"inflight", "done", "failed"}
                       THEN StatsFor(r, stats, cn, i) ELSE NoPayload]

InFlight(cs) == {i \in Indices : cs[i] = "inflight"}
Queued(cs)   == {i \in Indices : cs[i] = "queued"}
Settled(cs)  == {i \in Indices : cs[i] \in {"done", "failed", "threw"}}

\* p-limit's activeCount: the functions that were started and have not settled
Active(cs)   == {i \in Indices : cs[i] \in {"inflight", "throwing"}}

\* the callback of candidate i runs up to its first await
RunCallback(r, cn, i) == IF Throws(r, cn, i) THEN "throwing" ELSE "inflight"

\* whether candidate i's call settles before that of an earlier candidate
Overtakes(cs, i) == \E j \in 1..(i - 1) : cs[j] \in {"queued", "inflight"}

Min(S) == CHOOSE x \in S : \A y \in S : x <= y

\* a limiter that admits one function too many
LimitAllowsOneMore(r, active) == r # "bounded" \/ active <= PoolSize

\* p-limit: a function may run while fewer than the limit are running
LimitAllows(r, active) == r # "bounded" \/ active < PoolSize

\* individuals.map(c => limit(fn)): in order, run the function or queue it
RECURSIVE MapCalls(_, _, _, _)
MapCalls(r, cn, cs, i) ==
    IF i > NumCandidates THEN cs
    ELSE MapCalls(r, cn,
                  [cs EXCEPT ![i] = IF LimitAllows(r, Cardinality(Active(cs)))
                                    THEN RunCallback(r, cn, i) ELSE "queued"],
                  i + 1)

\* p-limit's next(): a finished function hands its slot to the head of the queue
Next_pLimit(r, cn, cs) ==
    IF Queued(cs) # {} /\ LimitAllows(r, Cardinality(Active(cs)))
    THEN [cs EXCEPT ![Min(Queued(cs))] = RunCallback(r, cn, Min(Queued(cs)))]
    ELSE cs

\* the microtasks that follow: each callback that threw rejects its promise
\* and hands its slot on
RECURSIVE SettleThrown(_, _, _)
SettleThrown(r, cn, cs) ==
    LET throwing == {i \in Indices : cs[i] = "throwing"}
    IN  IF throwing = {} THEN cs
        ELSE SettleThrown(r, cn,
                 Next_pLimit(r, cn, [cs EXCEPT ![Min(throwing)] = "threw"]))

\* an aggregate that waits for every call and never rejects
AllSettledState(cs) ==
    IF \A i \in Indices : cs[i] \in {"done", "failed", "threw"}
    THEN "fulfilled" ELSE "pending"

\* Promise.all: rejected with the first rejection, fulfilled when all are
PromiseAllState(cs) ==
    IF \E i \in Indices : cs[i] \in {"failed", "threw"} THEN "rejected"
    ELSE IF \A i \in Indices : cs[i] = "done" THEN "fulfilled"
    ELSE "pending"

\* an aggregate that pushes each value as it arrives
PushOnCompletion(res, i, value) ==
    [res EXCEPT ![Min({k \in Indices : res[k] = NoResult})] = value]

\* Promise.all keeps each promise's value at the position of the promise
PromiseAllStore(res, i, value) == [res EXCEPT ![i] = value]

\* a rejection that takes the calls in flight beside it down with it
RejectAndAbort(cs, i) ==
    [k \in Indices |-> IF k = i \/ cs[k] = "inflight" THEN "failed" ELSE cs[k]]

\* axios throws in the callback of candidate i: that callback's promise
\* rejects, and nothing is done to any other
Reject(cs, i) == [cs EXCEPT ![i] = "failed"]

Respond(status, payload) ==
    responses' = Append(responses, [status |-> status, body |-> payload])

\* a handler that answers 500 at every settlement that finds a rejection
AwaitEachRejection(cs, res) ==
    IF pc = "idle" THEN UNCHANGED <<pc, responses>>
    ELSE IF PromiseAllState(cs) = "rejected"
         THEN pc' = "done" /\ Respond(500, <<>>)
    ELSE IF pc = "awaiting" /\ PromiseAllState(cs) = "fulfilled"
         THEN pc' = "done" /\ Respond(200, res)
    ELSE UNCHANGED <<pc, responses>>

\* the continuation of `await Promise.all(calls)`: res.json(results), or the
\* catch block's 500
AwaitPromiseAll(cs, res) ==
    IF pc # "awaiting" THEN UNCHANGED <<pc, responses>>
    ELSE IF PromiseAllState(cs) = "rejected"
         THEN pc' = "done" /\ Respond(500, <<>>)
    ELSE IF PromiseAllState(cs) = "fulfilled"
         THEN pc' = "done" /\ Respond(200, res)
    ELSE UNCHANGED <<pc, responses>>

BiasFixerRequest ==
    /\ pc = "idle"
    /\ \E ms \in MinScoreValues, tol \in ToleranceValues :
          LET b == [minScore |-> ms, tolerance |-> tol] IN
          /\ body' = b
          /\ IF MissingParameters(rev, b)
             THEN /\ pc' = "done"
                  /\ Respond(400, <<>>)
                  /\ UNCHANGED call
             ELSE IF rev = "local"
             THEN /\ pc' = "done"
                  /\ Respond(200, Simulated(b))
                  /\ UNCHANGED call
             ELSE LET cs == SettleThrown(rev, countryOf,
                                         MapCalls(rev, countryOf, call, 1))
                  IN  /\ call' = cs
                      /\ IF PromiseAllState(cs) = "rejected"
                         THEN pc' = "done" /\ Respond(500, <<>>)
                         ELSE pc' = "awaiting" /\ UNCHANGED responses
    /\ payloads' = Payloads(rev, countryStats, countryOf, call')
    /\ UNCHANGED <<rev, mlModel, results, outOfOrder, countryOf, peer>>
    /\ UNCHANGED <<authVars, serverVars>>

\* the scorer answers candidate i's call: its callback returns its entry
ScoringCallResolves(i) ==
    /\ call[i] = "inflight"
    /\ LET cs    == SettleThrown(rev, countryOf,
                        Next_pLimit(rev, countryOf, [call EXCEPT ![i] = "done"]))
           res   == PromiseAllStore(results, i,
                       ResultEntry(rev, individuals[i], mlModel[i], body))
       IN  /\ call' = cs
           /\ results' = res
           /\ outOfOrder' = (outOfOrder \/ Overtakes(call, i))
           /\ AwaitPromiseAll(cs, res)
    /\ payloads' = Payloads(rev, countryStats, countryOf, call')
    /\ UNCHANGED <<rev, mlModel, body, countryOf, peer>>
    /\ UNCHANGED <<authVars, serverVars>>

\* candidate i's call fails (transport error, timeout, non-2xx): axios throws
ScoringCallRejects(i) ==
    /\ call[i] = "inflight"
    /\ LET cs == SettleThrown(rev, countryOf,
                     Next_pLimit(rev, countryOf, Reject(call, i)))
       IN  /\ call' = cs
           /\ outOfOrder' = (outOfOrder \/ Overtakes(call, i))
           /\ AwaitPromiseAll(cs, results)
    /\ payloads' = Payloads(rev, countryStats, countryOf, call')
    /\ UNCHANGED <<rev, mlModel, body, results, countryOf, peer>>
    /\ UNCHANGED <<authVars, serverVars>>

\* the handler of a second request, before the request arrives
NoPeer ==
    [ pc        |-> "idle",
      body      |-> [minScore |-> Undefined, tolerance |-> Undefined],
      call      |-> [i \in Indices |-> "none"],
      results   |-> [i \in Indices |-> NoResult],
      responses |-> <<>>,
      fails     |-> {} ]

\* the bodies of the second request, and the calls of it the scorer fails
PeerBodies == { [minScore |-> Number(0), tolerance |-> Number(0)] }
PeerFaults == { {}, {2} }

\* the continuation of the second handler's `await Promise.all(calls)`
PeerAwait(p) ==
    IF p.pc # "awaiting" THEN p
    ELSE IF PromiseAllState(p.call) = "rejected"
         THEN [p EXCEPT !.pc = "done",
                        !.responses = Append(@, [status |-> 500, body |-> <<>>])]
    ELSE IF PromiseAllState(p.call) = "fulfilled"
         THEN [p EXCEPT !.pc = "done",
                        !.responses = Append(@, [status |-> 200, body |-> p.results])]
    ELSE p

\* a second POST /api/bias-fixer with both parameters arrives: the handler
\* makes its own limiter and maps its own calls
PeerRequest(b, f) ==
    /\ rev # "local"
    /\ peer.pc = "idle"
    /\ peer' = PeerAwait([peer EXCEPT
                    !.pc    = "awaiting",
                    !.body  = b,
                    !.fails = f,
                    !.call  = SettleThrown(rev, countryOf,
                                  MapCalls(rev, countryOf, peer.call, 1))])
    /\ UNCHANGED <<rev, mlModel, pc, body, call, results, outOfOrder, responses,
                   countryOf, payloads>>
    /\ UNCHANGED <<authVars, serverVars>>

\* the scorer settles the second request's calls in the order it got them
PeerCallSettles ==
    /\ InFlight(peer.call) # {}
    /\ LET i  == Min(InFlight(peer.call))
           ok == i \notin peer.fails
           cs == SettleThrown(rev, countryOf,
                     Next_pLimit(rev, countryOf,
                         IF ok THEN [peer.call EXCEPT ![i] = "done"]
                         ELSE Reject(peer.call, i)))
           res == IF ok
                  THEN PromiseAllStore(peer.results, i,
                           ResultEntry(rev, individuals[i], mlModel[i], peer.body))
                  ELSE peer.results
       IN  peer' = PeerAwait([peer EXCEPT !.call = cs, !.results = res])
    /\ UNCHANGED <<rev, mlModel, pc, body, call, results, outOfOrder, responses,
                   countryOf, payloads>>
    /\ UNCHANGED <<authVars, serverVars>>

InitBatch ==
    /\ rev \in Revisions
    /\ mlModel \in MLModels
    /\ pc = "idle"
    /\ body = [minScore |-> Undefined, tolerance |-> Undefined]
    /\ call = [i \in Indices |-> "none"]
    /\ results = [i \in Indices |-> NoResult]
    /\ outOfOrder = FALSE
    /\ responses = <<>>
    /\ countryOf = [i \in Indices |-> "france"]
    /\ payloads = [i \in Indices |-> NoPayload]
    /\ peer = NoPeer

NextBatch ==
    \/ BiasFixerRequest
    \/ \E i \in Indices : ScoringCallResolves(i)
    \/ \E i \in Indices : ScoringCallRejects(i)

\* a request whose calls are out, and a second request beside it
NextPeers ==
    \/ \E i \in Indices : ScoringCallResolves(i)
    \/ \E i \in Indices : ScoringCallRejects(i)
    \/ \E b \in PeerBodies, f \in PeerFaults : PeerRequest(b, f)
    \/ PeerCallSettles

----------------------------------------------------------------------------
(* Passwords *)

\* the passwords a client may type
Passwords == {"adminpass", "bobpass"}

\* bcrypt.hash(password, 12): a string no typed password equals
Hash(p) == "$2a$12$" \o p

\* bcrypt.compare(password, stored): stored is a bcrypt hash, and of password
BcryptCompare(p, stored) ==
    /\ stored \in {Hash(q) : q \in Passwords}
    /\ stored = Hash(p)

----------------------------------------------------------------------------
(* Signup and login *)

AuthRevisions == {"memory", "pg", "session"}

Clients == {1, 2}

\* req.ip of each client
Ips == <<"10.0.0.1", "10.0.0.2">>

NoUser == [username |-> "", role |-> ""]

Body(u, p) == [username |-> u, password |-> p]

\* the bodies a login request may carry: a field left empty, the
\* administrator's credentials, another account's, and passwords that are not
\* the account's (another password, the stored hash)
LoginBodies ==
    { Body("", "adminpass"), Body("Admin", ""),
      Body("Admin", "adminpass"), Body("Admin", "bobpass"),
      Body("bob", "bobpass"), Body("bob", Hash("bobpass")) }

\* the bodies a signup request may carry
SignupBodies ==
    { [username |-> "bob", password |-> "bobpass", role |-> "user"],
      [username |-> " Bob", password |-> "bobpass", role |-> "admin"],
      [username |-> "Bob", password |-> "bobpass", role |-> "root"],
      [username |-> " ", password |-> "bobpass", role |-> "user"] }

\* the rows table users holds when the process starts: one row written
\* before passwords were hashed
LegacyUsers == { [username |-> "admin", password |-> "adminpass", role |-> "admin"] }

\* the row POST /api/signup stores for a body
SignedUpRow(b) ==
    [ username |-> ToLowerCase(Trim(b.username)),
      password |-> Hash(b.password),
      role     |-> b.role ]

\* the tables users the process may find when it starts: the legacy row
\* alone, or with a row an earlier signup stored
StoredTables ==
    { LegacyUsers,
      LegacyUsers \cup
          {SignedUpRow([username |-> "bob", password |-> "bobpass", role |-> "user"])} }

\* SELECT * FROM users WHERE username = $1
SelectUser(rows, name) == {r \in rows : r.username = name}

\* the 400 check at the head of the login handler
MissingCredentials(r, u, p) ==
    IF r = "session" THEN Trim(u) = "" \/ p = "" ELSE u = "" \/ p = ""

\* the credential check of the login handler
Verify(r, rows, u, p) ==
    IF r = "session"
    THEN \E user \in SelectUser(rows, ToLowerCase(Trim(u))) :
            BcryptCompare(p, user.password) \/ user.password = p
    ELSE ToLowerCase(u) = "admin" /\ p = "adminpass"

\* the user the handler goes on with once the credentials are verified
VerifiedUser(r, rows, u) ==
    IF r = "session"
    THEN LET user == CHOOSE x \in SelectUser(rows, ToLowerCase(Trim(u))) : TRUE
         IN  [username |-> user.username, role |-> user.role]
    ELSE [username |-> u, role |-> ""]

\* a row that carries the address of another request
AuditRowOtherIp(r, l, now) ==
    [ username  |-> l.user.username,
      timestamp |-> IF r = "session" THEN now ELSE l.timestamp,
      ip        |-> Ips[1] ]

\* the row of the INSERT INTO logs: the timestamp is the handler's
\* new Date().toISOString(), or the database's now() in the session revision
AuditRow(r, l, now) ==
    [ username  |-> l.user.username,
      timestamp |-> IF r = "session" THEN now ELSE l.timestamp,
      ip        |-> Ips[l.client] ]

\* an INSERT that overwrites the row written last
InsertOverLastRow(ls, row) ==
    IF ls = <<>> THEN <<row>> ELSE [ls EXCEPT ![Len(ls)] = row]

\* INSERT INTO logs / loginLogs.push(logEntry): the table gains one row
InsertIntoLogs(ls, row) == Append(ls, row)

LoginRespond(status, user, c, audit) ==
    loginResponses' = Append(loginResponses,
        [status |-> status, user |-> user, ip |-> Ips[c], audit |-> audit])

\* req.session.user = {...} reaches the store when the response ends
SaveSession(r, l) ==
    IF r = "session" THEN [session EXCEPT ![l.client] = l.user] ELSE session

\* the handler's answer once its INSERT has been done
InsertedResponse(l) == [status |-> 200, user |-> l.user.username]

\* a catch block that logs the failure and answers as if the row were saved
BestEffortResponse(l) == [status |-> 200, user |-> l.user.username]

\* the catch block of the handler: the INSERT failed
CatchResponse(l) == [status |-> 500, user |-> ""]

SignupRespond(id, name, status) ==
    signupResponses' = Append(signupResponses,
        [id |-> id, username |-> name, status |-> status])

\* a table users without the UNIQUE constraint on username
NoUniqueConstraint(rows, name) == FALSE

\* username TEXT UNIQUE NOT NULL: the INSERT of a stored name fails with 23505
UniqueViolation(rows, name) == SelectUser(rows, name) # {}

\* POST /api/signup, up to its 400 or to its INSERT
SignupRequest(u, p, role) ==
    /\ authRev = "session"
    /\ signupCount < MaxSignups
    /\ signupCount' = signupCount + 1
    /\ IF Trim(u) = "" \/ p = ""
       THEN /\ SignupRespond(signupCount + 1, Trim(u), 400)
            /\ UNCHANGED signups
       ELSE /\ signups' = signups \cup
                  { [ id  |-> signupCount + 1,
                      row |-> SignedUpRow([username |-> u, password |-> p,
                                           role |-> role]) ] }
            /\ UNCHANGED signupResponses
    /\ UNCHANGED <<authRev, users, logs, session, clock, req, inserts, loginCount,
                   loginResponses, answer>>
    /\ UNCHANGED <<batchVars, serverVars>>

\* the INSERT of a suspended signup handler is executed: the row is stored, or
\* the unique constraint rejects it and the catch block answers 409
SignupInsertResolves(s) ==
    /\ s \in signups
    /\ signups' = signups \ {s}
    /\ IF UniqueViolation(users, s.row.username)
       THEN /\ SignupRespond(s.id, s.row.username, 409)
            /\ UNCHANGED users
       ELSE /\ users' = users \cup {s.row}
            /\ SignupRespond(s.id, s.row.username, 200)
    /\ UNCHANGED <<authRev, logs, session, clock, req, inserts, loginCount,
                   signupCount, loginResponses, answer>>
    /\ UNCHANGED <<batchVars, serverVars>>

\* the INSERT of a suspended signup handler fails for another reason: 500
SignupInsertRejects(s) ==
    /\ s \in signups
    /\ signups' = signups \ {s}
    /\ SignupRespond(s.id, s.row.username, 500)
    /\ UNCHANGED <<authRev, users, logs, session, clock, req, inserts, loginCount,
                   signupCount, loginResponses, answer>>
    /\ UNCHANGED <<batchVars, serverVars>>

\* POST /api/login, up to its first response or to its INSERT
LoginRequest(c, u, p) ==
    /\ loginCount < MaxLogins
    /\ loginCount' = loginCount + 1
    /\ req' = [username |-> u, password |-> p, client |-> c]
    /\ IF MissingCredentials(authRev, u, p)
       THEN /\ LoginRespond(400, "", c, "none")
            /\ UNCHANGED <<logs, inserts>>
       ELSE IF ~Verify(authRev, users, u, p)
       THEN /\ LoginRespond(401, "", c, "none")
            /\ UNCHANGED <<logs, inserts>>
       ELSE LET l == [ id        |-> loginCount + 1,
                       client    |-> c,
                       user      |-> VerifiedUser(authRev, users, u),
                       timestamp |-> IF authRev = "session" THEN 0 ELSE clock ]
            IN  IF authRev = "memory"
                THEN /\ logs' = InsertIntoLogs(logs, AuditRow(authRev, l, clock))
                     /\ LoginRespond(200, u, c, "saved")
                     /\ UNCHANGED inserts
                ELSE /\ inserts' = inserts \cup {l}
                     /\ UNCHANGED <<logs, loginResponses>>
    /\ UNCHANGED <<authRev, users, session, clock, signupCount, signups,
                   signupResponses, answer>>
    /\ UNCHANGED <<batchVars, serverVars>>

\* the INSERT of a suspended login handler is done: the handler answers
LoginInsertResolves(l) ==
    /\ l \in inserts
    /\ inserts' = inserts \ {l}
    /\ logs' = InsertIntoLogs(logs, AuditRow(authRev, l, clock))
    /\ session' = SaveSession(authRev, l)
    /\ LoginRespond(InsertedResponse(l).status, InsertedResponse(l).user,
                    l.client, "saved")
    /\ UNCHANGED <<authRev, users, clock, req, loginCount, signupCount, signups,
                   signupResponses, answer>>
    /\ UNCHANGED <<batchVars, serverVars>>

\* the INSERT of a suspended login handler fails: its catch block answers
LoginInsertRejects(l) ==
    /\ l \in inserts
    /\ inserts' = inserts \ {l}
    /\ session' = SaveSession(authRev, l)
    /\ LoginRespond(CatchResponse(l).status, CatchResponse(l).user,
                    l.client, "failed")
    /\ UNCHANGED <<authRev, users, logs, clock, req, loginCount, signupCount,
                   signups, signupResponses, answer>>
    /\ UNCHANGED <<batchVars, serverVars>>

\* the gates of an admin-only route passed only by the presence of a user
AuthorizeAnyUser(user) ==
    IF user = NoUser THEN 401 ELSE 200

\* the gates of GET /api/logs: no session user, 401; a role other than
\* admin, 403
Authorize(user) ==
    IF user = NoUser THEN 401
    ELSE IF user.role # "admin" THEN 403
    ELSE 200

\* SELECT * FROM logs ORDER BY timestamp DESC: the rows in an order in which
\* timestamps do not increase (rows of one timestamp come in any order)
OrderByTimestampDesc(ls) ==
    IF ls = <<>> THEN {<<>>}
    ELSE { [k \in 1..Len(ls) |-> ls[f[k]]] :
             f \in { g \in Permutations(1..Len(ls)) :
                       \A k \in 1..(Len(ls) - 1) :
                           ls[g[k]].timestamp >= ls[g[k + 1]].timestamp } }

\* the rows GET /api/logs reads: the array loginLogs as it is, or the SELECT
SelectLogs(r, ls) ==
    IF r = "memory" THEN {ls} ELSE OrderByTimestampDesc(ls)

NoAnswer == [endpoint |-> "none", user |-> NoUser, status |-> 0, rows |-> <<>>]

\* a response of GET /api/logs; user is the req.session.user the handler read
LogsAnswer(user, status, rows) ==
    [endpoint |-> "logs", user |-> user, status |-> status, rows |-> rows]

\* res.json({ status:'logout success' })
LogoutAnswer == [endpoint |-> "logout", user |-> NoUser, status |-> 200, rows |-> <<>>]

\* req.session.destroy(): the session of the client leaves the store
SessionDestroy(store, c) == [store EXCEPT ![c] = NoUser]

\* GET /api/logs
GetLogs(c) ==
    LET user == IF authRev = "session" THEN session[c] ELSE NoUser
        gate == IF authRev = "session" THEN Authorize(user) ELSE 200
    IN  /\ IF gate # 200
           THEN answer' = LogsAnswer(user, gate, <<>>)
           ELSE \/ \E rows \in SelectLogs(authRev, logs) :
                     answer' = LogsAnswer(user, 200, rows)
                \/ /\ authRev # "memory"
                   /\ answer' = LogsAnswer(user, 500, <<>>)
        /\ UNCHANGED <<authRev, users, logs, session, clock, req, inserts,
                       loginCount, signupCount, loginResponses, signups,
                       signupResponses>>
        /\ UNCHANGED <<batchVars, serverVars>>

\* GET /api/logout
Logout(c) ==
    /\ authRev = "session"
    /\ session' = SessionDestroy(session, c)
    /\ answer' = LogoutAnswer
    /\ UNCHANGED <<authRev, users, logs, clock, req, inserts, loginCount,
                   signupCount, loginResponses, signups, signupResponses>>
    /\ UNCHANGED <<batchVars, serverVars>>

\* time passes
Tick ==
    /\ clock < MaxClock
    /\ clock' = clock + 1
    /\ UNCHANGED <<authRev, users, logs, session, req, inserts, loginCount,
                   signupCount, loginResponses, signups, signupResponses, answer>>
    /\ UNCHANGED <<batchVars, serverVars>>

InitAuth ==
    /\ authRev \in AuthRevisions
    /\ users \in IF authRev = "session" THEN StoredTables ELSE {{}}
    /\ logs = <<>>
    /\ session = [c \in Clients |-> NoUser]
    /\ clock = 0
    /\ req = [username |-> "", password |-> "", client |-> 1]
    /\ inserts = {}
    /\ loginCount = 0
    /\ signupCount = 0
    /\ loginResponses = <<>>
    /\ signups = {}
    /\ signupResponses = <<>>
    /\ answer = NoAnswer

NextSignup ==
    \/ \E b \in SignupBodies : SignupRequest(b.username, b.password, b.role)
    \/ \E s \in signups : SignupInsertResolves(s)
    \/ \E s \in signups : SignupInsertRejects(s)

NextAuth ==
    \/ \E c \in Clients : GetLogs(c)
    \/ \E c \in Clients : Logout(c)
    \/ \E c \in Clients, b \in LoginBodies : LoginRequest(c, b.username, b.password)
    \/ \E l \in inserts : LoginInsertResolves(l)
    \/ \E l \in inserts : LoginInsertRejects(l)
    \/ Tick

----------------------------------------------------------------------------
(* Start-up, the dataset endpoints, the country lookup and the scorer proxy *)

\* the revisions of the entry point: part_002 (memory), index.js:1-191
\* (local), part_001:200-395 (sensitive), part_003 (bounded), index.js:195-458
\* and part_000:1-268 (trimmed), part_001:1-197 (lowered), part_000:270-532
\* (session)
Builds == {"memory", "local", "sensitive", "bounded", "trimmed", "lowered", "session"}

\* the revisions that need ML_API_URL
HasScorer(b) == b \notin {"memory", "local"}

\* the revisions that open a database pool
HasDatabase(b) == b # "memory"

\* what follows the CREATE TABLE query when it fails: nothing is attached to
\* it, .catch logs the error, or .catch ends the process
InitCatch(b) ==
    CASE b \in {"local", "sensitive"}           -> "none"
      [] b \in {"bounded", "trimmed", "lowered"} -> "log"
      [] b = "session"                           -> "exit"
      [] OTHER                                   -> "none"

\* how the loader derives country
Normalize(b) ==
    CASE b \in {"lowered", "session"} -> "lower"
      [] b = "trimmed"                 -> "trim"
      [] OTHER                         -> "none"

HasCountryStats(b) == b \notin {"memory", "local"}

HasPredict(b) == b \in {"trimmed", "lowered", "session"}

Environments == [ML_API_URL : BOOLEAN, database : BOOLEAN]

GoodEnv == [ML_API_URL |-> TRUE, database |-> TRUE]

\* the records a bias_data.json may hold; a field a record does not have is
\* outside its domain
RawRecords ==
    { [name |-> 1, origin |-> "France"],
      [name |-> 2, country |-> " peru "],
      [name |-> 3],
      [name |-> 4, origin |-> " ", country |-> "peru"],
      [name |-> 5, Origin |-> " Peru "] }

RECURSIVE SeqsUpTo(_, _)
SeqsUpTo(S, n) ==
    IF n = 0 THEN {<<>>}
    ELSE SeqsUpTo(S, n - 1) \cup
         {Append(q, x) : q \in {r \in SeqsUpTo(S, n - 1) : Len(r) = n - 1}, x \in S}

\* the files bias_data.json the process may be started on
RawFiles == SeqsUpTo(RawRecords, MaxRecords)

\* c.origin, c.Origin, c.country: undefined and '' are both falsy, and the
\* chain of || ends in ''
Field(c, f) == IF f \in DOMAIN c THEN c[f] ELSE ""

\* c.origin || c.Origin || c.country || ''
OriginOrCountry(c) ==
    IF Field(c, "origin") # "" THEN Field(c, "origin")
    ELSE IF Field(c, "Origin") # "" THEN Field(c, "Origin")
    ELSE Field(c, "country")

\* the country the loader gives a record
CountryOf(mode, c) ==
    IF mode = "lower" THEN ToLowerCase(Trim(OriginOrCountry(c)))
    ELSE Trim(OriginOrCountry(c))

\* { ...c, country }
WithCountry(c, country) ==
    [f \in DOMAIN c \cup {"country"} |-> IF f = "country" THEN country ELSE c[f]]

\* rawIndividuals.map(...).filter(c => c.country), or the parsed file as it is
Load(b, raw) ==
    IF Normalize(b) = "none" THEN raw
    ELSE LET mapped == [k \in DOMAIN raw |->
                           WithCountry(raw[k], CountryOf(Normalize(b), raw[k]))]
             kept(c) == c.country # ""
         IN  SelectSeq(mapped, kept)

\* the files country_stats.json the process may be started on
StatsFiles ==
    { [k \in {"france"} |-> Stats(1)],
      [k \in {"france", "peru"} |-> IF k = "france" THEN Stats(1) ELSE Stats(2)],
      [k \in {"France"} |-> Stats(1)] }

\* the names a request may put in /api/country-stats/:country
LookupNames == {"France", "france", "FRANCE", "peru", "Nowhereland", "__proto__"}

\* the key GET /api/country-stats/:country looks up
LookupKey(b, name) == IF b = "sensitive" THEN name ELSE ToLowerCase(name)

\* GET /api/country-stats/:country: the entry, or 404 'country not found'
CountryStatsResponse(b, stats, name) ==
    LET one == GetProperty(stats, LookupKey(b, name))
    IN  IF one.t = "object" THEN [status |-> 200, body |-> one]
        ELSE [status |-> 404, body |-> Undefined]

NoLookup == [status |-> 0, body |-> Undefined]

NoData == [endpoint |-> "none", status |-> 0, rows |-> <<>>, total |-> 0]

\* the cell json2csv writes for a field: empty when the record has none
ExportRow(c) == [name |-> c.name, country |-> Field(c, "country")]

\* module load: the ML_API_URL check, the CREATE TABLE query, the fixtures,
\* app.listen
Start ==
    /\ proc = "loading"
    /\ IF HasScorer(build) /\ ~env.ML_API_URL
       THEN /\ proc' = "exited"
            /\ UNCHANGED <<dbInit, loaded>>
       ELSE /\ proc' = "listening"
            /\ dbInit' = IF HasDatabase(build) THEN "pending" ELSE "none"
            /\ loaded' = Load(build, rawIndividuals)
    /\ UNCHANGED <<build, env, rawIndividuals, countryStats, dataAnswer, lookups,
                   predictCount, upstreamCalls, upstream, predictAnswer>>
    /\ UNCHANGED <<batchVars, authVars>>

\* the CREATE TABLE query is done
DbInitResolves ==
    /\ proc = "listening"
    /\ dbInit = "pending"
    /\ env.database
    /\ dbInit' = "fulfilled"
    /\ UNCHANGED <<build, env, proc, rawIndividuals, countryStats, loaded,
                   dataAnswer, lookups, predictCount, upstreamCalls, upstream,
                   predictAnswer>>
    /\ UNCHANGED <<batchVars, authVars>>

\* the CREATE TABLE query fails: the database is unreachable. A rejection
\* nothing is attached to ends the process or not, with the runtime
DbInitRejects ==
    /\ proc = "listening"
    /\ dbInit = "pending"
    /\ ~env.database
    /\ dbInit' = "rejected"
    /\ CASE InitCatch(build) = "exit" -> proc' = "exited"
         [] InitCatch(build) = "log"  -> proc' = proc
         [] OTHER                     -> proc' \in {proc, "exited"}
    /\ UNCHANGED <<build, env, rawIndividuals, countryStats, loaded, dataAnswer,
                   lookups, predictCount, upstreamCalls, upstream, predictAnswer>>
    /\ UNCHANGED <<batchVars, authVars>>

DataRespond(endpoint, rows, total) ==
    /\ dataAnswer' = [endpoint |-> endpoint, status |-> 200, rows |-> rows,
                      total |-> total]
    /\ UNCHANGED <<build, env, proc, dbInit, rawIndividuals, countryStats, loaded,
                   lookups, predictCount, upstreamCalls, upstream, predictAnswer>>
    /\ UNCHANGED <<batchVars, authVars>>

\* GET /api/individuals
GetIndividuals ==
    /\ proc = "listening"
    /\ DataRespond("individuals", loaded, 0)

\* GET /api/summary: totalCandidates
GetSummary ==
    /\ proc = "listening"
    /\ DataRespond("summary", <<>>, Len(loaded))

\* GET /api/export: one line of CSV per record
GetExport ==
    /\ proc = "listening"
    /\ DataRespond("export", [k \in DOMAIN loaded |-> ExportRow(loaded[k])], 0)

\* GET /api/country-stats/:country
GetCountryStats(name) ==
    /\ proc = "listening"
    /\ HasCountryStats(build)
    /\ lookups' = [lookups EXCEPT ![name] = CountryStatsResponse(build, countryStats, name)]
    /\ UNCHANGED <<build, env, proc, dbInit, rawIndividuals, countryStats, loaded,
                   dataAnswer, predictCount, upstreamCalls, upstream, predictAnswer>>
    /\ UNCHANGED <<batchVars, authVars>>

\* what the scorer's body parses to: a JSON object (with or without a
\* detail field) or, for a body that is no JSON, a string
Json(n, detail) == [t |-> "object", v |-> n, detail |-> detail]
Text(n)         == [t |-> "string", v |-> n, detail |-> ""]
NoData2xx       == [t |-> "undefined", v |-> 0, detail |-> ""]

\* the HTTP responses the scorer may give to POST /predict
ScorerResponses ==
    { [kind |-> "response", status |-> 200, data |-> Json(1, ""), message |-> ""],
      [kind |-> "response", status |-> 200, data |-> Text(1), message |-> ""],
      [kind |-> "response", status |-> 422, data |-> Json(0, "bad payload"),
       message |-> "Request failed with status code 422"],
      [kind |-> "response", status |-> 503, data |-> Text(2),
       message |-> "Request failed with status code 503"] }

\* the errors axios throws when no response arrives
TransportErrors ==
    { [kind |-> "error", status |-> 0, data |-> NoData2xx,
       message |-> "timeout of 15000ms exceeded"],
      [kind |-> "error", status |-> 0, data |-> NoData2xx,
       message |-> "connect ECONNREFUSED"] }

NoReply == [kind |-> "none", status |-> 0, data |-> NoData2xx, message |-> ""]

NoPrediction == [status |-> 0, body |-> NoData2xx, error |-> ""]

\* the requests of a run, in order of arrival
PredictIds == 1..MaxPredicts

\* axios' validateStatus: a 2xx response resolves, any other rejects
Resolves(status) == status >= 200 /\ status < 300

\* a catch block that answers 500 whatever the scorer answered
CatchPredictAlways500(e) ==
    [ status |-> 500,
      body   |-> NoData2xx,
      error  |-> IF e.data.detail # "" THEN e.data.detail ELSE e.message ]

\* the catch block of POST /api/predict:
\* res.status(e.response?.status || 500).json({ error: detail || e.message })
CatchPredict(e) ==
    [ status |-> IF e.kind = "response" /\ e.status # 0 THEN e.status ELSE 500,
      body   |-> NoData2xx,
      error  |-> IF e.data.detail # "" THEN e.data.detail ELSE e.message ]

\* POST /api/predict, up to its call of the scorer
PredictRequest ==
    /\ proc = "listening"
    /\ HasPredict(build)
    /\ predictCount < MaxPredicts
    /\ predictCount' = predictCount + 1
    /\ upstreamCalls' = [upstreamCalls EXCEPT ![predictCount + 1] = @ + 1]
    /\ upstream' = [upstream EXCEPT ![predictCount + 1] =
                                       [pc |-> "awaiting", given |-> NoReply]]
    /\ UNCHANGED <<build, env, proc, dbInit, rawIndividuals, countryStats, loaded,
                   dataAnswer, lookups, predictAnswer>>
    /\ UNCHANGED <<batchVars, authVars>>

\* the scorer answers: res.json(data), or the catch block
ScorerResponds(id, reply) ==
    /\ upstream[id].pc = "awaiting"
    /\ upstream' = [upstream EXCEPT ![id] = [pc |-> "done", given |-> reply]]
    /\ predictAnswer' =
           [predictAnswer EXCEPT ![id] =
               IF Resolves(reply.status)
               THEN [status |-> 200, body |-> reply.data, error |-> ""]
               ELSE CatchPredict(reply)]
    /\ UNCHANGED <<build, env, proc, dbInit, rawIndividuals, countryStats, loaded,
                   dataAnswer, lookups, predictCount, upstreamCalls>>
    /\ UNCHANGED <<batchVars, authVars>>

\* no response arrives (transport error, timeout): the catch block
ScorerFails(id, e) ==
    /\ upstream[id].pc = "awaiting"
    /\ upstream' = [upstream EXCEPT ![id] = [pc |-> "done", given |-> e]]
    /\ predictAnswer' = [predictAnswer EXCEPT ![id] = CatchPredict(e)]
    /\ UNCHANGED <<build, env, proc, dbInit, rawIndividuals, countryStats, loaded,
                   dataAnswer, lookups, predictCount, upstreamCalls>>
    /\ UNCHANGED <<batchVars, authVars>>

\* the process before module load
InitServer ==
    /\ build \in Builds
    /\ env \in Environments
    /\ proc = "loading"
    /\ dbInit = "none"
    /\ rawIndividuals \in RawFiles
    /\ countryStats \in StatsFiles
    /\ loaded = <<>>
    /\ dataAnswer = NoData
    /\ lookups = [n \in LookupNames |-> NoLookup]
    /\ predictCount = 0
    /\ upstreamCalls = [id \in PredictIds |-> 0]
    /\ upstream = [id \in PredictIds |-> [pc |-> "idle", given |-> NoReply]]
    /\ predictAnswer = [id \in PredictIds |-> NoPrediction]

\* the fixtures of a run that is not about them
DefaultRaw   == << [name |-> 1, origin |-> "France"] >>
DefaultStats == [k \in {"france"} |-> Stats(1)]

\* the process once it has started without an error
ServerUp ==
    /\ build = "session"
    /\ env = GoodEnv
    /\ proc = "listening"
    /\ dbInit = "fulfilled"
    /\ rawIndividuals = DefaultRaw
    /\ countryStats = DefaultStats
    /\ loaded = Load(build, rawIndividuals)
    /\ dataAnswer = NoData
    /\ lookups = [n \in LookupNames |-> NoLookup]
    /\ predictCount = 0
    /\ upstreamCalls = [id \in PredictIds |-> 0]
    /\ upstream = [id \in PredictIds |-> [pc |-> "idle", given |-> NoReply]]
    /\ predictAnswer = [id \in PredictIds |-> NoPrediction]

NextServer ==
    \/ Start
    \/ DbInitResolves
    \/ DbInitRejects
    \/ GetIndividuals
    \/ GetSummary
    \/ GetExport

NextLookup ==
    \/ Start
    \/ \E n \in LookupNames : GetCountryStats(n)

NextPredict ==
    \/ Start
    \/ PredictRequest
    \/ \E id \in PredictIds, r \in ScorerResponses : ScorerResponds(id, r)
    \/ \E id \in PredictIds, e \in TransportErrors : ScorerFails(id, e)

----------------------------------------------------------------------------
(* Specifications *)

\* the bias-fixer of any revision, with no login traffic
Init ==
    /\ InitBatch
    /\ InitAuth
    /\ authRev = "session"
    /\ users = LegacyUsers
    /\ ServerUp

Spec == Init /\ [][NextBatch]_vars

\* signup and login of any revision, with no bias-fixer traffic
InitLogin ==
    /\ InitAuth
    /\ InitBatch
    /\ rev = "bounded"
    /\ mlModel = [i \in Indices |-> Num(50)]
    /\ ServerUp

SpecAuth == InitLogin /\ [][NextAuth]_vars

\* signup of the session revision, concurrent requests included
InitSignup ==
    /\ InitLogin
    /\ authRev = "session"

SpecSignup == InitSignup /\ [][NextSignup]_vars

\* the bias-fixer over the served collections a revision's loader can leave:
\* the loader beside the pct handler drops the records without a country
InitStats ==
    /\ InitAuth
    /\ authRev = "session"
    /\ users = LegacyUsers
    /\ ServerUp
    /\ rev \in Revisions
    /\ mlModel = [i \in Indices |-> 5]
    /\ pc = "idle"
    /\ body = [minScore |-> Undefined, tolerance |-> Undefined]
    /\ call = [i \in Indices |-> "none"]
    /\ results = [i \in Indices |-> NoResult]
    /\ outOfOrder = FALSE
    /\ responses = <<>>
    /\ countryOf \in {f \in CountryFiles : rev = "pct" => DOMAIN f = Indices}
    /\ payloads = [i \in Indices |-> NoPayload]
    /\ peer = NoPeer

SpecStats == InitStats /\ [][NextBatch]_vars

\* the scorer's client has a timeout: a call that is in flight settles
InitLive ==
    /\ InitStats
    /\ rev \in {"pct", "bounded"}
    /\ \A i \in DOMAIN countryOf : countryOf[i] = "france"

SpecLive ==
    /\ InitLive
    /\ [][NextBatch]_vars
    /\ WF_vars(\E i \in Indices : ScoringCallResolves(i) \/ ScoringCallRejects(i))

\* a revision that calls the scorer, at the await of a request
\* { minScore: 60, tolerance: 2 } whose calls have been mapped
InitPeers ==
    /\ InitAuth
    /\ authRev = "session"
    /\ users = LegacyUsers
    /\ ServerUp
    /\ rev \in Revisions \ {"local"}
    /\ mlModel = [i \in Indices |-> IF i % 2 = 1 THEN Num(50) ELSE Num(65)]
    /\ pc = "awaiting"
    /\ body = [minScore |-> Number(Num(60)), tolerance |-> Number(Num(2))]
    /\ countryOf = [i \in Indices |-> "france"]
    /\ call = SettleThrown(rev, countryOf,
                  MapCalls(rev, countryOf, [i \in Indices |-> "none"], 1))
    /\ results = [i \in Indices |-> NoResult]
    /\ outOfOrder = FALSE
    /\ responses = <<>>
    /\ payloads = Payloads(rev, countryStats, countryOf, call)
    /\ peer = NoPeer

SpecPeers == InitPeers /\ [][NextPeers]_vars

\* the batch and login halves of a run that is about neither
Quiet ==
    /\ InitBatch
    /\ rev = "bounded"
    /\ mlModel = [i \in Indices |-> Num(50)]
    /\ InitAuth
    /\ authRev = "session"
    /\ users = LegacyUsers

\* start-up and the dataset endpoints, for every revision, environment and
\* bias_data.json
InitData ==
    /\ InitServer
    /\ countryStats = DefaultStats
    /\ Quiet

SpecServer == InitData /\ [][NextServer]_vars

\* the country lookup, for every revision and country_stats.json
InitLookup ==
    /\ InitServer
    /\ env = GoodEnv
    /\ rawIndividuals = DefaultRaw
    /\ Quiet

SpecLookup == InitLookup /\ [][NextLookup]_vars

\* the scorer proxy of the revisions that have one
InitPredict ==
    /\ InitServer
    /\ HasPredict(build)
    /\ env = GoodEnv
    /\ rawIndividuals = DefaultRaw
    /\ countryStats = DefaultStats
    /\ Quiet

SpecPredict == InitPredict /\ [][NextPredict]_vars

----------------------------------------------------------------------------
(* Properties of POST /api/bias-fixer *)

Responded(status) == \E k \in 1..Len(responses) : responses[k].status = status

\* the array of a successful response
Returned == responses[1].body

\* the score the handler obtained for candidate i, on the scale it reports
ObtainedScore(i) == ScoreOf(rev, individuals[i], mlModel[i])

\* obtained score + tolerance * 5 * bumpCount, not rounded
AdjustedScore(i) ==
    ObtainedScore(i) + ToNumber(body.tolerance) * 5 * bumpCount(rev, individuals[i])

\* C1: in every bias-fixer result, a candidate is hired exactly when the
\* adjusted score (upstream score plus tolerance*5*bumpCount) is >= minScore.
C1_HiredOnAdjustedScore ==
    Responded(200) =>
        \A i \in Indices :
            Returned[i].hired = (AdjustedScore(i) >= ToNumber(body.minScore))

\* C2: in every result entry of a revision that calls the scorer,
\* original_score is the score obtained from the scorer and adjusted_score is
\* round(original_score + tolerance*5*bumpCount).
C2_ReportedScores ==
    (Responded(200) /\ rev # "local") =>
        \A i \in Indices :
            /\ Returned[i].original_score = ObtainedScore(i)
            /\ Returned[i].adjusted_score = MathRound(AdjustedScore(i))

\* C3: once a scoring call of the batch has failed, the request is answered
\* with one 500 error and with no array, wherever the failed call stands and
\* in whatever order the other calls complete.
C3_FailureFailsBatch ==
    (\E i \in Indices : call[i] = "failed") =>
        responses = << [status |-> 500, body |-> <<>>] >>

\* C3 witness: the last candidate's call failed after others had completed
\* out of order, in the revision that queues calls, and the answer is 500.
C3_Witness ==
    /\ rev = "bounded"
    /\ call[NumCandidates] = "failed"
    /\ \E j \in Indices : call[j] = "done"
    /\ outOfOrder
    /\ Responded(500)

\* C4: the i-th element of a returned array is the result of the i-th
\* candidate of the served collection, whatever the completion order.
C4_ResultsInIterationOrder ==
    Responded(200) =>
        /\ DOMAIN Returned = Indices
        /\ \A i \in Indices :
              /\ Returned[i].name = individuals[i].name
              /\ Returned[i] = ResultEntry(rev, individuals[i], mlModel[i], body)

\* C4 witness: a successful answer of the revision that queues calls, whose
\* calls completed out of order.
C4_Witness ==
    /\ rev = "bounded"
    /\ NumCandidates > PoolSize
    /\ outOfOrder
    /\ Responded(200)

\* C5: in the bounded revision at most 5 scoring calls of a batch are in
\* flight, and a call beyond the fifth is started only once a call has finished.
C5_AtMostFiveInFlight ==
    rev = "bounded" =>
        /\ Cardinality(InFlight(call)) <= PoolSize
        /\ \A i \in Indices :
              (i > PoolSize /\ call[i] \in {"inflight", "done", "failed"})
                  => Cardinality(Settled(call)) >= i - PoolSize

\* C5 witness: the sixth call is in flight beside four others, one call
\* having finished.
C5_Witness ==
    /\ rev = "bounded"
    /\ call[PoolSize + 1] = "inflight"
    /\ Cardinality(InFlight(call)) = PoolSize
    /\ Cardinality(Settled(call)) = 1

\* C6: a request in which minScore or tolerance is missing or null is
\* answered 400 and issues no scoring call; a request in which both are
\* present (0 included) is not answered 400.
C6_MissingParameterRejected ==
    pc # "idle" =>
        IF body.minScore \in {Undefined, Null} \/ body.tolerance \in {Undefined, Null}
        THEN /\ responses = << [status |-> 400, body |-> <<>>] >>
             /\ \A i \in Indices : call[i] = "none"
        ELSE ~Responded(400)

----------------------------------------------------------------------------
(* Properties of POST /api/login *)

\* the name a revision looks an account up by
LoginKey(r, u) == IF r = "session" THEN ToLowerCase(Trim(u)) ELSE ToLowerCase(u)

\* the accounts that exist, each with the password it was given: the
\* hard-coded administrator, or the rows of table users (a hashed row's
\* password is the one that was hashed at signup)
Accounts ==
    IF authRev = "session"
    THEN { [ username |-> row.username,
             password |-> IF \E q \in Passwords : Hash(q) = row.password
                          THEN CHOOSE q \in Passwords : Hash(q) = row.password
                          ELSE row.password ] : row \in users }
    ELSE { [username |-> "admin", password |-> "adminpass"] }

\* a request that carries both fields, and not an account's name and password
WrongCredentials(q) ==
    /\ ~MissingCredentials(authRev, q.username, q.password)
    /\ ~\E a \in Accounts :
          a.username = LoginKey(authRev, q.username) /\ a.password = q.password

LoginAnswers(P(_)) == SelectSeq(loginResponses, P)
IsVerified(r)  == r.audit # "none"
IsSuccess(r)   == r.status = 200
AuditFailed(r) == r.audit = "failed"

\* C7 (as claimed): every login with correct credentials appends exactly one
\* audit row: the audit rows are as many as the answered logins whose
\* credentials were verified.
C7_OneRowPerVerifiedLogin ==
    Len(logs) = Len(LoginAnswers(IsVerified))

\* C7 (amended): every login answered with success has appended exactly one
\* audit row, carrying its username and the requesting IP: the audit rows are,
\* in order, the logins answered with success.
C7_OneRowPerSuccessfulLogin ==
    LET ok == LoginAnswers(IsSuccess) IN
    /\ Len(logs) = Len(ok)
    /\ \A k \in 1..Len(ok) :
          /\ logs[k].username = ok[k].user
          /\ logs[k].ip = ok[k].ip

\* C7 witness: two logins with correct credentials were answered, from two
\* addresses; one was saved and answered with success, one was not.
C7_Witness ==
    /\ Len(logs) = 1
    /\ \E j, k \in 1..Len(loginResponses) :
          /\ loginResponses[j].status = 200
          /\ loginResponses[k].audit = "failed"
          /\ loginResponses[j].ip # loginResponses[k].ip

\* C8: a login with a wrong password or an unknown username is answered 401,
\* appends no audit row (then or later) and establishes no session user.
C8_WrongCredentialsRejected ==
    [][ (loginCount' = loginCount + 1 /\ WrongCredentials(req')) =>
            /\ logs' = logs
            /\ inserts' = inserts
            /\ session' = session
            /\ Len(loginResponses') = Len(loginResponses) + 1
            /\ loginResponses'[Len(loginResponses')].status = 401 ]_vars

C10_TimestampsNonDecreasing ==
    \A k \in 1..(Len(logs) - 1) : logs[k].timestamp <= logs[k + 1].timestamp

----------------------------------------------------------------------------
(* Properties of GET /api/logs, POST /api/signup and GET /api/logout *)

\* C11: in the session revision GET /api/logs answers 401 to a request with no
\* session user and 403 to one whose session user has a role other than
\* admin, and returns audit rows only to a session user with role admin.
C11_LogsOnlyToAdmin ==
    (authRev = "session" /\ answer.endpoint = "logs") =>
        /\ (answer.user = NoUser => answer.status = 401)
        /\ (answer.user # NoUser /\ answer.user.role # "admin"
               => answer.status = 403)
        /\ (answer.status \in {401, 403} => answer.rows = <<>>)
        /\ (answer.rows # <<>> => answer.user.role = "admin")

\* C11 witness: a logged-in user whose role is not admin asked for the audit
\* rows, which exist, and was answered 403.
C11_Witness ==
    /\ authRev = "session"
    /\ answer.endpoint = "logs"
    /\ answer.status = 403
    /\ answer.user.role = "user"
    /\ logs # <<>>

SignupAnswers(name, status) ==
    {k \in 1..Len(signupResponses) :
        signupResponses[k].username = name /\ signupResponses[k].status = status}

\* C12: no two rows of table users have the same stored username, stored
\* usernames are trimmed and lowercase, at most one signup per username is
\* answered with success, and a signup whose INSERT finds the username stored
\* is answered 409 and adds no row.
C12_UniqueUsernames ==
    /\ [](/\ \A r1, r2 \in users : r1.username = r2.username => r1 = r2
          /\ \A r \in users : ToLowerCase(Trim(r.username)) = r.username
          /\ \A r \in users : Cardinality(SignupAnswers(r.username, 200)) <= 1)
    /\ [][ Len(signupResponses') = Len(signupResponses) + 1 =>
             LET a      == signupResponses'[Len(signupResponses')]
                 stored == SelectUser(users, a.username) # {}
             IN  /\ (stored /\ a.status # 500) =>
                        (a.status = 409 /\ users' = users)
                 /\ a.status = 200 =>
                        /\ ~stored
                        /\ Cardinality(users') = Cardinality(users) + 1
                        /\ SelectUser(users', a.username) # {}
                 /\ a.status # 200 => users' = users ]_vars

\* C12 witness: two signups for one username overlapped; the one requested
\* second was stored first, and the one requested first was answered 409.
C12_Witness ==
    /\ Len(signupResponses) = 2
    /\ signupResponses[1].id = 2
    /\ signupResponses[1].status = 200
    /\ signupResponses[2].id = 1
    /\ signupResponses[2].status = 409
    /\ signupResponses[1].username = signupResponses[2].username

\* C13: every row of table users has the role admin or the role user.
C13_RolesAdminOrUser ==
    \A r \in users : r.role \in {"admin", "user"}

\* C14: a logout leaves the client's session without a user and answers
\* 'logout success'; a logout with no session user changes nothing and gives
\* the same answer; and a session without a user gains one only by a login
\* answered with success.
C14_LogoutDestroysSession ==
    [][ /\ \A c \in Clients :
              Logout(c) =>
                  /\ session'[c] = NoUser
                  /\ answer' = LogoutAnswer
                  /\ (session[c] = NoUser => session' = session)
                  /\ SessionDestroy(session', c) = session'
        /\ \A c \in Clients :
              (session[c] = NoUser /\ session'[c] # NoUser) =>
                  /\ Len(loginResponses') = Len(loginResponses) + 1
                  /\ loginResponses'[Len(loginResponses')].status = 200
                  /\ loginResponses'[Len(loginResponses')].ip = Ips[c] ]_vars

\* C17: the audit rows only grow: a step keeps every row as it is, adds at
\* most one, and adds one only with a login answered with success, for its
\* user and address.
C17_AuditAppendOnly ==
    [][ /\ Len(logs') \in {Len(logs), Len(logs) + 1}
        /\ SubSeq(logs', 1, Len(logs)) = logs
        /\ logs' # logs =>
              /\ Len(loginResponses') = Len(loginResponses) + 1
              /\ loginResponses'[Len(loginResponses')].status = 200
              /\ logs'[Len(logs')].username = loginResponses'[Len(loginResponses')].user
              /\ logs'[Len(logs')].ip = loginResponses'[Len(loginResponses')].ip ]_vars

\* C17 witness: two rows were appended at different times, and a request of
\* another endpoint has been answered since the process started.
C17_Witness ==
    /\ Len(logs) = 2
    /\ logs[1].timestamp # logs[2].timestamp
    /\ answer.endpoint # "none"

\* C18: the rows GET /api/logs returns are in descending order of timestamp.
C18_LogsNewestFirst ==
    (answer.endpoint = "logs" /\ answer.status = 200) =>
        \A k \in 1..(Len(answer.rows) - 1) :
            answer.rows[k].timestamp >= answer.rows[k + 1].timestamp

----------------------------------------------------------------------------
(* Properties of start-up, the dataset endpoints, the country lookup and the
   scorer proxy *)

\* C15: every record of the served collection has a country that is non-empty
\* and lowercase, and a raw record none of whose fields origin, Origin, country
\* resolves to a non-empty value is absent from the served collection, from the
\* individuals and export answers and from the summary's count.
C15_CountryNormalised ==
    proc = "listening" =>
        /\ \A k \in DOMAIN loaded :
               /\ "country" \in DOMAIN loaded[k]
               /\ loaded[k].country # ""
               /\ loaded[k].country = ToLowerCase(loaded[k].country)
        /\ \A k \in DOMAIN rawIndividuals :
               Trim(OriginOrCountry(rawIndividuals[k])) = "" =>
                   /\ \A j \in DOMAIN loaded :
                          loaded[j].name # rawIndividuals[k].name
                   /\ \A j \in DOMAIN dataAnswer.rows :
                          dataAnswer.rows[j].name # rawIndividuals[k].name
        /\ dataAnswer.endpoint = "summary" =>
               dataAnswer.total =
                   Cardinality({k \in DOMAIN rawIndividuals :
                                   Trim(OriginOrCountry(rawIndividuals[k])) # ""})

\* C16: requests to the country lookup whose names differ only in letter case
\* get the same answer, and a name the statistics mapping has no entry for,
\* whatever the case, gets 404.
C16_LookupCaseInsensitive ==
    /\ \A a \in LookupNames, b \in LookupNames :
           ( /\ ToLowerCase(a) = ToLowerCase(b)
             /\ lookups[a].status # 0
             /\ lookups[b].status # 0 ) => lookups[a] = lookups[b]
    /\ \A n \in LookupNames :
           ( /\ lookups[n].status # 0
             /\ \A k \in DOMAIN countryStats : ToLowerCase(k) # ToLowerCase(n) )
           => lookups[n].status = 404

\* C19: every request to POST /api/predict has issued exactly one call of the
\* scorer; an answered request carries the scorer's body under 200 when the
\* scorer succeeded, the scorer's status when it answered with a failure, and
\* 500 when no response arrived.
C19_PredictProxiesOnce ==
    \A id \in PredictIds :
        /\ upstreamCalls[id] = IF id <= predictCount THEN 1 ELSE 0
        /\ upstream[id].pc = "done" =>
               IF upstream[id].given.kind = "response"
               THEN IF Resolves(upstream[id].given.status)
                    THEN /\ predictAnswer[id].status = 200
                         /\ predictAnswer[id].body = upstream[id].given.data
                    ELSE predictAnswer[id].status = upstream[id].given.status
               ELSE predictAnswer[id].status = 500

\* one request answered with the scorer's 503 and another with 500 after a
\* transport error
C19_Witness ==
    \E a \in PredictIds, b \in PredictIds :
        /\ upstream[a].pc = "done"
        /\ upstream[a].given.kind = "response"
        /\ upstream[a].given.status = 503
        /\ predictAnswer[a].status = 503
        /\ upstream[b].pc = "done"
        /\ upstream[b].given.kind = "error"
        /\ predictAnswer[b].status = 500
        /\ upstreamCalls[a] = 1
        /\ upstreamCalls[b] = 1

\* C20: once ML_API_URL was found missing or the CREATE TABLE query has failed
\* the process has exited, and no request is answered from then on.
C20_StartupErrorsExit ==
    /\ []( ( \/ HasScorer(build) /\ ~env.ML_API_URL /\ proc # "loading"
             \/ dbInit = "rejected" ) => proc = "exited" )
    /\ [][ ( \/ HasScorer(build) /\ ~env.ML_API_URL /\ proc # "loading"
             \/ dbInit = "rejected" ) => dataAnswer' = dataAnswer ]_vars

----------------------------------------------------------------------------
(* Further properties of POST /api/bias-fixer *)

\* C21: for every candidate whose callback has computed its entry, bumpCount,
\* the multiplier of tolerance*5, is 0, 1 or 2, whatever the candidate's
\* bias_flags hold.
C21_BumpCountAtMostTwo ==
    \A i \in Indices :
        call[i] = "done" => bumpCount(rev, individuals[i]) \in {0, 1, 2}

\* C26: in every result entry hired is true exactly when the adjusted_score
\* the entry reports is >= minScore.
C26_HiredAgreesWithReportedScore ==
    Responded(200) =>
        \A i \in Indices :
            Returned[i].hired =
                (Returned[i].adjusted_score >= ToNumber(body.minScore))

\* C22: in a revision that calls the scorer, a candidate whose country the
\* statistics do not list, or whose record has no country field, gets its
\* scoring call (at once or when a slot is free) with an empty record for the
\* statistics, and a request is answered 500 only when a scoring call failed.
C22_MissingStatsTolerated ==
    (pc # "idle" /\ rev # "local" /\ ~MissingParameters(rev, body)) =>
        /\ \A i \in Indices :
               ( \/ i \notin DOMAIN countryOf
                 \/ \A k \in DOMAIN countryStats :
                        ToLowerCase(k) # ToLowerCase(countryOf[i]) ) =>
                   /\ call[i] \in {"queued", "inflight", "done", "failed"}
                   /\ call[i] # "queued" => payloads[i] = EmptyRecord
        /\ Responded(500) => \E i \in Indices : call[i] = "failed"

\* the response of the second request, when it succeeded: its own entries
PeerEntries ==
    [i \in Indices |-> ResultEntry(rev, individuals[i], mlModel[i], peer.body)]

\* C23: a step in which a scoring call settles leaves every other call that is
\* in flight in flight, so after a failure the siblings run on until each
\* completes or fails itself; once a call has failed the request's only
\* response is the 500 without an array, and a request handled meanwhile is
\* answered with its own entries or with a 500 without an array.
C23_SiblingsRunOn ==
    /\ []( (\E i \in Indices : call[i] = "failed") =>
              responses = << [status |-> 500, body |-> <<>>] >> )
    /\ []( \A k \in 1..Len(peer.responses) :
              \/ peer.responses[k] = [status |-> 200, body |-> PeerEntries]
              \/ peer.responses[k] = [status |-> 500, body |-> <<>>] )
    /\ [][ \A j \in Indices :
              (call[j] = "inflight" /\ call'[j] # "inflight") =>
                  /\ call'[j] \in {"done", "failed"}
                  /\ \A k \in Indices \ {j} :
                         call[k] = "inflight" => call'[k] = "inflight" ]_vars

\* the first call failed and the request was answered 500 while a sibling is
\* still in flight and another has completed, and the request handled
\* meanwhile was answered with its array
C23_Witness ==
    /\ call[1] = "failed"
    /\ call[2] = "inflight"
    /\ call[3] = "done"
    /\ responses = << [status |-> 500, body |-> <<>>] >>
    /\ peer.responses = << [status |-> 200, body |-> PeerEntries] >>

\* C27: in the bounded revision the scoring calls in flight, those of a
\* request handled at the same time included, are never more than 5.
C27_AtMostFiveInFlightOverall ==
    rev = "bounded" =>
        Cardinality(InFlight(call)) + Cardinality(InFlight(peer.call)) <= PoolSize

\* C28: a request that carries both parameters is eventually answered, with
\* the full array or with a 500 without an array, and no step writes a
\* response once one has been written.
C28_ExactlyOneResponse ==
    /\ (pc # "idle" /\ ~MissingParameters(rev, body)) ~>
           ( /\ Len(responses) = 1
             /\ \/ /\ responses[1].status = 200
                   /\ DOMAIN responses[1].body = Indices
                \/ responses[1] = [status |-> 500, body |-> <<>>] )
    /\ [](Len(responses) <= 1)
    /\ [][responses # <<>> => responses' = responses]_vars

\* the request was answered 500 once, two calls having failed and others
\* having completed
C28_Witness ==
    /\ responses = << [status |-> 500, body |-> <<>>] >>
    /\ Cardinality({i \in Indices : call[i] = "failed"}) >= 2
    /\ \E i \in Indices : call[i] = "done"
    /\ \A i \in Indices : call[i] \in {"done", "failed"}

----------------------------------------------------------------------------
(* Further properties of POST /api/login *)

\* C24: in the session revision the step that answers a login with success
\* gives the client's session the user named in the answer, and the step that
\* answers a login with an error leaves the session as it was; so a session
\* has a user, and GET /api/logs passes the 401 gate, only for a client some
\* login of which was answered with success.
C24_SessionUserIffLoginSuccess ==
    /\ []( authRev = "session" =>
              /\ \A c \in Clients :
                     session[c] # NoUser =>
                         \E k \in 1..Len(loginResponses) :
                             /\ loginResponses[k].status = 200
                             /\ loginResponses[k].ip = Ips[c]
                             /\ loginResponses[k].user = session[c].username
              /\ (answer.endpoint = "logs" /\ answer.status # 401) =>
                     \E k \in 1..Len(loginResponses) :
                         /\ loginResponses[k].status = 200
                         /\ loginResponses[k].user = answer.user.username )
    /\ [][ (authRev = "session" /\ Len(loginResponses') = Len(loginResponses) + 1) =>
              LET r == loginResponses'[Len(loginResponses')]
              IN  \A c \in Clients :
                      r.ip = Ips[c] =>
                          IF r.status = 200
                          THEN session'[c].username = r.user
                          ELSE session'[c] = session[c] ]_vars

\* C25: in the session revision a login that passed the credential check for
\* an account whose stored password is a hash carried the password that was
\* hashed; the stored hash itself does not pass.
C25_StoredHashDoesNotAuthenticate ==
    authRev = "session" =>
        \A l \in inserts :
            l.id = loginCount =>
                \A row \in SelectUser(users, l.user.username) :
                    (\E q \in Passwords : row.password = Hash(q)) =>
                        BcryptCompare(req.password, row.password)

====
